---- MODULE Spec2Model ----
(***************************************************************************)
(* Mortgage default risk dashboard (src/app.py).                           *)
(*                                                                         *)
(* The program is a Streamlit script.  Streamlit runs the script top to    *)
(* bottom once when the session opens and again after every widget change  *)
(* or button click.  One script run is: load_model() (cached resource),    *)
(* read the sidebar widgets, derive three ratios, build input_data, and,   *)
(* when the run was triggered by the button, score input_data and render   *)
(* the risk card, the gauge, the ratio table and the recommendation.  An   *)
(* exception anywhere ends the run at that line.                           *)
(*                                                                         *)
(* Numbers that Python holds as floats (ratios, probabilities, slider      *)
(* values such as 0.35 or 7.5) are exact rationals <<num, den>> here, in   *)
(* lowest terms with den > 0; int / int is Python's true division.         *)
(***************************************************************************)
EXTENDS Integers, Sequences, FiniteSets, TLC

VARIABLES
    cache,        \* st.cache_resource slot of load_model: None or the model object
    loads,        \* joblib.load calls that returned, over the process lifetime
    widgets,      \* session widget state: the values the sidebar widgets return
    button,       \* what st.button returns in the current run
    pc,           \* next line of the script to execute, or "done"
    exception,    \* name of the exception that ended the current run, or NoException
    model,        \* script global `model` of the current run
    loan_to_income,
    employment_ratio,
    credit_utilization_proxy,
    input_data,   \* the one-row DataFrame, as a record
    probability,  \* script global `probability`
    display,      \* elements the current run has rendered
    loadCalls,    \* joblib.load calls made by the current run
    scoreCalls,   \* predict_proba calls made by the current run
    scoredWith,   \* model object the current run scored with
    scoredRecord, \* record the current run passed to predict_proba
    refDerived    \* input_data first built from the default widget values

vars == <<cache, loads, widgets, button, pc, exception, model, loan_to_income,
          employment_ratio, credit_utilization_proxy, input_data, probability,
          display, loadCalls, scoreCalls, scoredWith, scoredRecord, refDerived>>

\* an unbound script global, an empty cache slot, nothing rendered
None == <<>>

-----------------------------------------------------------------------------
(* Bounds of the model *)

\* number_input accepts any integer: incomes and loan amounts are taken from
\* -AmountSpan..AmountSpan and the widget's default value
AmountSpan == 1
\* probabilities are the multiples of 1/(5*ProbSteps) in [0,1]
ProbSteps == 2
\* cap on the lifetime counter of successful joblib.load calls
MaxLoads == 2
\* cap on the per-run counters of load and scoring calls
MaxCalls == 2
\* the pure-function specification tries ages and credit-line counts from
\* -DomainSpan..DomainSpan besides the widget samples
DomainSpan == 1

-----------------------------------------------------------------------------
(* Exact arithmetic standing for Python's float arithmetic *)

Abs(n) == IF n < 0 THEN -n ELSE n

RECURSIVE GCD(_, _)
GCD(a, b) == IF b = 0 THEN a ELSE GCD(b, a % b)

\* the rational n/d (d # 0) in lowest terms with a positive denominator
Frac(n, d) ==
    LET g == GCD(Abs(n), Abs(d))
        s == IF d < 0 THEN -1 ELSE 1
    IN  <<(s * n) \div g, (s * d) \div g>>

Zero == <<0, 1>>

ZeroDivisionError == <<"ZeroDivisionError">>

\* Python's a / b on ints
TrueDiv(a, b) == IF b = 0 THEN ZeroDivisionError ELSE Frac(a, b)

\* p < q on rationals
Lt(p, q) == p[1] * q[2] < q[1] * p[2]

-----------------------------------------------------------------------------
(* Sidebar widgets, lines 83-99 *)

Fields == {"Age", "Income", "LoanAmount", "CreditScore", "MonthsEmployed",
           "NumCreditLines", "InterestRate", "LoanTerm", "DTIRatio",
           "Education", "EmploymentType", "MaritalStatus", "HasMortgage",
           "HasDependents", "LoanPurpose", "HasCoSigner"}

\* fields the derived ratios read
DeriveFields == {"Age", "Income", "LoanAmount", "MonthsEmployed", "NumCreditLines"}

\* fields copied into input_data as they are
PassThrough == Fields \ DeriveFields

\* the value each widget returns until the user touches it: the slider's or
\* number_input's value argument, the selectbox's first option
Default ==
    [Age |-> 35, Income |-> 80000, LoanAmount |-> 200000, CreditScore |-> 650,
     MonthsEmployed |-> 60, NumCreditLines |-> 5, InterestRate |-> <<15, 2>>,
     LoanTerm |-> 120, DTIRatio |-> <<7, 20>>, Education |-> "High School",
     EmploymentType |-> "Salaried", MaritalStatus |-> "Single",
     HasMortgage |-> "Yes", HasDependents |-> "Yes",
     LoanPurpose |-> "Home Purchase", HasCoSigner |-> "Yes"]

\* the values the model lets the user set: a slider's ends and default, a
\* selectbox's first and last option, and for the unbounded number_input the
\* integers around zero and the default
Choices ==
    [Age |-> {18, 35, 70},
     Income |-> (-AmountSpan .. AmountSpan) \cup {80000},
     LoanAmount |-> (-AmountSpan .. AmountSpan) \cup {200000},
     CreditScore |-> {300, 650, 850},
     MonthsEmployed |-> {0, 60, 480},
     NumCreditLines |-> {0, 5, 15},
     InterestRate |-> {<<1, 1>>, <<15, 2>>, <<25, 1>>},
     LoanTerm |-> {120, 360},
     DTIRatio |-> {<<0, 1>>, <<7, 20>>, <<1, 1>>},
     Education |-> {"High School", "PhD"},
     EmploymentType |-> {"Salaried", "Unemployed"},
     MaritalStatus |-> {"Single", "Divorced"},
     HasMortgage |-> {"Yes", "No"},
     HasDependents |-> {"Yes", "No"},
     LoanPurpose |-> {"Home Purchase", "Investment"},
     HasCoSigner |-> {"Yes", "No"}]

-----------------------------------------------------------------------------
(* Feature engineering, lines 104-128 *)

\* the guard written income >= 0
LoanToIncomeGe(loan_amount, income) ==
    IF income >= 0 THEN TrueDiv(loan_amount, income) ELSE Zero

\* line 104: loan_amount / income if income > 0 else 0
LoanToIncome(loan_amount, income) ==
    IF income > 0 THEN TrueDiv(loan_amount, income) ELSE Zero

\* the guard left out
EmploymentRatioNoGuard(months_employed, age) ==
    TrueDiv(months_employed, age)

\* line 105: months_employed / age if age > 0 else 0
EmploymentRatio(months_employed, age) ==
    IF age > 0 THEN TrueDiv(months_employed, age) ELSE Zero

\* the + 1 left out
CreditUtilizationProxyNoPlusOne(loan_amount, num_credit_lines) ==
    TrueDiv(loan_amount, num_credit_lines)

\* line 106: loan_amount / (num_credit_lines + 1)
CreditUtilizationProxy(loan_amount, num_credit_lines) ==
    TrueDiv(loan_amount, num_credit_lines + 1)

\* lines 108-128: the widget values and the three ratios, one row
InputData(w, lti, er, cup) ==
    [Age |-> w.Age, Income |-> w.Income, LoanAmount |-> w.LoanAmount,
     CreditScore |-> w.CreditScore, MonthsEmployed |-> w.MonthsEmployed,
     NumCreditLines |-> w.NumCreditLines, InterestRate |-> w.InterestRate,
     LoanTerm |-> w.LoanTerm, DTIRatio |-> w.DTIRatio,
     LoanToIncome |-> lti, EmploymentRatio |-> er,
     CreditUtilizationProxy |-> cup,
     Education |-> w.Education, EmploymentType |-> w.EmploymentType,
     MaritalStatus |-> w.MaritalStatus, HasMortgage |-> w.HasMortgage,
     HasDependents |-> w.HasDependents, LoanPurpose |-> w.LoanPurpose,
     HasCoSigner |-> w.HasCoSigner]

-----------------------------------------------------------------------------
(* The three threshold cascades on the probability *)

\* the float literals 0.2 and 0.4
P20 == <<1, 5>>
P40 == <<2, 5>>

\* the gauge's comparisons written <=
GaugeColorLe(p) ==
    IF ~Lt(P20, p) THEN "#2ecc71"
    ELSE IF ~Lt(P40, p) THEN "#f39c12"
    ELSE "#e74c3c"

\* lines 138-143, plot_gauge: colour of the gauge bar
GaugeColor(p) ==
    IF Lt(p, P20) THEN "#2ecc71"
    ELSE IF Lt(p, P40) THEN "#f39c12"
    ELSE "#e74c3c"

\* the card's comparisons written <=
RiskCardLe(p) ==
    IF ~Lt(P20, p) THEN [risk_level |-> "Low Risk", color |-> "#2ecc71"]
    ELSE IF ~Lt(P40, p) THEN [risk_level |-> "Moderate Risk", color |-> "#f39c12"]
    ELSE [risk_level |-> "High Risk", color |-> "#e74c3c"]

\* lines 168-176: label and colour of the risk card (the label's leading
\* emoji is left out)
RiskCard(p) ==
    IF Lt(p, P20) THEN [risk_level |-> "Low Risk", color |-> "#2ecc71"]
    ELSE IF Lt(p, P40) THEN [risk_level |-> "Moderate Risk", color |-> "#f39c12"]
    ELSE [risk_level |-> "High Risk", color |-> "#e74c3c"]

\* lines 208-213: the st.success / st.warning / st.error message
Recommendation(p) ==
    IF Lt(p, P20) THEN
        [box |-> "success",
         text |-> "Loan can be approved under standard underwriting guidelines."]
    ELSE IF Lt(p, P40) THEN
        [box |-> "warning",
         text |-> "Proceed with caution. Consider additional verification or adjusted pricing."]
    ELSE
        [box |-> "error",
         text |-> "High default risk detected. Recommend rejection or strong compensating factors."]

\* f"{probability:.2%}" (lines 151, 183): the probability in hundredths of a
\* percent, rounded to the nearest, ties to even
FormatPercent(p) ==
    LET n == 10000 * p[1]
        q == n \div p[2]
        r == n % p[2]
    IN  IF 2 * r < p[2] THEN q
        ELSE IF 2 * r > p[2] THEN q + 1
        ELSE IF q % 2 = 0 THEN q ELSE q + 1

\* what predict_proba(...)[0][1] can return: the model is opaque, so any
\* probability of the grid
Probabilities == {Frac(k, 5 * ProbSteps) : k \in 0 .. 5 * ProbSteps}

-----------------------------------------------------------------------------
(* One script run *)

NoException == "none"

\* Streamlit starts a run: the script's globals are unbound, nothing of this
\* run is rendered yet, and st.button returns b
Rerun(b) ==
    /\ button' = b
    /\ pc' = "load"
    /\ exception' = NoException
    /\ model' = None
    /\ loan_to_income' = None
    /\ employment_ratio' = None
    /\ credit_utilization_proxy' = None
    /\ input_data' = None
    /\ probability' = None
    /\ display' = None
    /\ loadCalls' = 0
    /\ scoreCalls' = 0
    /\ scoredWith' = None
    /\ scoredRecord' = None
    /\ UNCHANGED <<cache, loads, refDerived>>

\* lines 83-99: the user sets one sidebar widget; the script reruns and the
\* button reads False.  At most one pass-through widget is off its default
\* at a time.
SetWidget ==
    /\ pc = "done"
    /\ \E f \in Fields :
         /\ f \in PassThrough =>
                \A g \in PassThrough \ {f} : widgets[g] = Default[g]
         /\ \E v \in Choices[f] \ {widgets[f]} :
                widgets' = [widgets EXCEPT ![f] = v]
    /\ Rerun(FALSE)

\* line 164: the user clicks "Assess Default Risk"; the script reruns and the
\* button reads True
ClickButton ==
    /\ pc = "done"
    /\ UNCHANGED widgets
    /\ Rerun(TRUE)

\* the decorator left out: every run calls the function
CacheMiss == FALSE

\* line 65, @st.cache_resource: a stored return value is handed back without
\* calling the function
CacheHit == cache # None

\* line 69 on a cache hit
LoadCached ==
    /\ pc = "load"
    /\ CacheHit
    /\ model' = cache
    /\ pc' = "derive"
    /\ UNCHANGED <<cache, loads, widgets, button, exception, loan_to_income,
                   employment_ratio, credit_utilization_proxy, input_data,
                   probability, display, loadCalls, scoreCalls, scoredWith,
                   scoredRecord, refDerived>>

\* lines 67, 69: joblib.load returns; the object is stored in the cache
LoadOk ==
    /\ pc = "load"
    /\ ~CacheHit
    /\ loads < MaxLoads
    /\ loadCalls < MaxCalls
    /\ LET obj == [id |-> loads + 1, weights |-> "fitted"]
       IN  /\ cache' = obj
           /\ model' = obj
    /\ loads' = loads + 1
    /\ loadCalls' = loadCalls + 1
    /\ pc' = "derive"
    /\ UNCHANGED <<widgets, button, exception, loan_to_income,
                   employment_ratio, credit_utilization_proxy, input_data,
                   probability, display, scoreCalls, scoredWith,
                   scoredRecord, refDerived>>

\* a retry loop around joblib.load
LoadFailRetry ==
    /\ pc = "load"
    /\ ~CacheHit
    /\ loadCalls < MaxCalls
    /\ loadCalls' = loadCalls + 1
    /\ UNCHANGED <<cache, loads, widgets, button, pc, exception, model,
                   loan_to_income, employment_ratio, credit_utilization_proxy,
                   input_data, probability, display, scoreCalls, scoredWith,
                   scoredRecord, refDerived>>

\* lines 67, 69: joblib.load raises (file missing or corrupt); nothing is
\* cached and the exception ends the run
LoadFail ==
    /\ pc = "load"
    /\ ~CacheHit
    /\ loadCalls < MaxCalls
    /\ loadCalls' = loadCalls + 1
    /\ exception' = "LoadError"
    /\ pc' = "done"
    /\ UNCHANGED <<cache, loads, widgets, button, model, loan_to_income,
                   employment_ratio, credit_utilization_proxy, input_data,
                   probability, display, scoreCalls, scoredWith,
                   scoredRecord, refDerived>>

\* lines 104-128 with the ratios lti, er, cup: each line assigns unless a
\* division raised at or before it; a ZeroDivisionError ends the run
DeriveWith(lti, er, cup) ==
    LET raised1 == lti = ZeroDivisionError
        raised2 == raised1 \/ er = ZeroDivisionError
        raised3 == raised2 \/ cup = ZeroDivisionError
    IN  /\ loan_to_income' = IF raised1 THEN None ELSE lti
        /\ employment_ratio' = IF raised2 THEN None ELSE er
        /\ credit_utilization_proxy' = IF raised3 THEN None ELSE cup
        /\ input_data' = IF raised3 THEN None ELSE InputData(widgets, lti, er, cup)
        /\ exception' = IF raised3 THEN "ZeroDivisionError" ELSE NoException
        /\ pc' = IF raised3 THEN "done" ELSE "button"
        /\ refDerived' = IF refDerived = None /\ ~raised3 /\ widgets = Default
                         THEN InputData(widgets, lti, er, cup)
                         ELSE refDerived
        /\ UNCHANGED <<cache, loads, widgets, button, model, probability,
                       display, loadCalls, scoreCalls, scoredWith, scoredRecord>>

\* the loan-to-income ratio computed only in a run the button started
DeriveOnClick ==
    /\ pc = "derive"
    /\ DeriveWith(IF button
                  THEN LoanToIncome(widgets.LoanAmount, widgets.Income)
                  ELSE Zero,
                  EmploymentRatio(widgets.MonthsEmployed, widgets.Age),
                  CreditUtilizationProxy(widgets.LoanAmount, widgets.NumCreditLines))

\* lines 104-128
Derive ==
    /\ pc = "derive"
    /\ DeriveWith(LoanToIncome(widgets.LoanAmount, widgets.Income),
                  EmploymentRatio(widgets.MonthsEmployed, widgets.Age),
                  CreditUtilizationProxy(widgets.LoanAmount, widgets.NumCreditLines))

\* line 164: if st.button(...)
Button ==
    /\ pc = "button"
    /\ pc' = IF button THEN "score" ELSE "done"
    /\ UNCHANGED <<cache, loads, widgets, button, exception, model,
                   loan_to_income, employment_ratio, credit_utilization_proxy,
                   input_data, probability, display, loadCalls, scoreCalls,
                   scoredWith, scoredRecord, refDerived>>

\* line 166: model.predict_proba(input_data)[0][1] returns
ScoreOk ==
    /\ pc = "score"
    /\ model # None
    /\ scoreCalls < MaxCalls
    /\ \E p \in Probabilities : probability' = p
    /\ scoreCalls' = scoreCalls + 1
    /\ scoredWith' = model
    /\ scoredRecord' = input_data
    /\ pc' = "render"
    /\ UNCHANGED <<cache, loads, widgets, button, exception, model,
                   loan_to_income, employment_ratio, credit_utilization_proxy,
                   input_data, display, loadCalls, refDerived>>

\* the scoring call made again after it raised
ScoreFailRetry ==
    /\ pc = "score"
    /\ model # None
    /\ scoreCalls < MaxCalls
    /\ scoreCalls' = scoreCalls + 1
    /\ scoredWith' = model
    /\ scoredRecord' = input_data
    /\ UNCHANGED <<cache, loads, widgets, button, pc, exception, model,
                   loan_to_income, employment_ratio, credit_utilization_proxy,
                   input_data, probability, display, loadCalls, refDerived>>

\* line 166: predict_proba raises; the exception ends the run
ScoreFail ==
    /\ pc = "score"
    /\ model # None
    /\ scoreCalls < MaxCalls
    /\ scoreCalls' = scoreCalls + 1
    /\ scoredWith' = model
    /\ scoredRecord' = input_data
    /\ exception' = "ScoringError"
    /\ pc' = "done"
    /\ UNCHANGED <<cache, loads, widgets, button, model, loan_to_income,
                   employment_ratio, credit_utilization_proxy, input_data,
                   probability, display, loadCalls, refDerived>>

\* lines 168-213: metric, risk card, gauge, ratio table, recommendation
Render ==
    /\ pc = "render"
    /\ display' = [metric |-> FormatPercent(probability),
                   card |-> RiskCard(probability),
                   gauge |-> [color |-> GaugeColor(probability),
                              text |-> FormatPercent(probability)],
                   ratios |-> <<loan_to_income, widgets.DTIRatio, employment_ratio>>,
                   recommendation |-> Recommendation(probability)]
    /\ pc' = "done"
    /\ UNCHANGED <<cache, loads, widgets, button, exception, model,
                   loan_to_income, employment_ratio, credit_utilization_proxy,
                   input_data, probability, loadCalls, scoreCalls, scoredWith,
                   scoredRecord, refDerived>>

\* the session opens: the widgets hold their defaults and the first run is
\* about to start with an empty resource cache
Init ==
    /\ cache = None
    /\ loads = 0
    /\ widgets = Default
    /\ button = FALSE
    /\ pc = "load"
    /\ exception = NoException
    /\ model = None
    /\ loan_to_income = None
    /\ employment_ratio = None
    /\ credit_utilization_proxy = None
    /\ input_data = None
    /\ probability = None
    /\ display = None
    /\ loadCalls = 0
    /\ scoreCalls = 0
    /\ scoredWith = None
    /\ scoredRecord = None
    /\ refDerived = None

Next ==
    \/ SetWidget
    \/ ClickButton
    \/ LoadCached
    \/ LoadOk
    \/ LoadFail
    \/ Derive
    \/ Button
    \/ ScoreOk
    \/ ScoreFail
    \/ Render

Spec == Init /\ [][Next]_vars

-----------------------------------------------------------------------------
(* Feature engineering as a pure function: lines 104-128 applied to records
   whose ages and credit-line counts also lie outside what the sliders can
   return *)

DeriveInputs ==
    {[Default EXCEPT !.Age = a, !.Income = i, !.LoanAmount = l,
                     !.MonthsEmployed = m, !.NumCreditLines = n] :
        a \in (-DomainSpan .. DomainSpan) \cup Choices.Age,
        i \in Choices.Income,
        l \in Choices.LoanAmount,
        m \in Choices.MonthsEmployed,
        n \in (-DomainSpan .. DomainSpan) \cup Choices.NumCreditLines}

InitDerive ==
    /\ cache = [id |-> 1, weights |-> "fitted"]
    /\ loads = 1
    /\ widgets \in DeriveInputs
    /\ button \in BOOLEAN
    /\ pc = "derive"
    /\ exception = NoException
    /\ model = cache
    /\ loan_to_income = None
    /\ employment_ratio = None
    /\ credit_utilization_proxy = None
    /\ input_data = None
    /\ probability = None
    /\ display = None
    /\ loadCalls = 0
    /\ scoreCalls = 0
    /\ scoredWith = None
    /\ scoredRecord = None
    /\ refDerived = None

NextDerive == Derive

SpecDerive == InitDerive /\ [][NextDerive]_vars

-----------------------------------------------------------------------------
(* Properties *)

\* p < 0.20 and p < 0.40, stated on the fraction itself
Below20(p) == 5 * p[1] < p[2]
Below40(p) == 5 * p[1] < 2 * p[2]

\* the rational p equals num/den
IsQuotient(p, num, den) == p[1] * den = num * p[2]

\* the base fields of an input_data row
Base(rec) == [f \in Fields |-> rec[f]]

TierOfLabel(l) ==
    CASE l = "Low Risk" -> 1 [] l = "Moderate Risk" -> 2 [] l = "High Risk" -> 3

TierOfColor(c) ==
    CASE c = "#2ecc71" -> 1 [] c = "#f39c12" -> 2 [] c = "#e74c3c" -> 3

TierOfBox(b) ==
    CASE b = "success" -> 1 [] b = "warning" -> 2 [] b = "error" -> 3

Rendered == display # None

\* C1: a rendered assessment of probability p shows Low and the approve
\* message when p < 0.20, Moderate and the proceed-with-caution message when
\* 0.20 <= p < 0.40, High and the recommend-rejection message when p >= 0.40,
\* and no larger probability gets a lower tier than the one shown.
C1_TierThresholds ==
    Rendered =>
        LET p == probability
            tier == TierOfLabel(display.card.risk_level)
            msg == display.recommendation
        IN  /\ Below20(p) =>
                /\ tier = 1
                /\ msg.box = "success"
                /\ msg.text = "Loan can be approved under standard underwriting guidelines."
            /\ ~Below20(p) /\ Below40(p) =>
                /\ tier = 2
                /\ msg.box = "warning"
                /\ msg.text = "Proceed with caution. Consider additional verification or adjusted pricing."
            /\ ~Below40(p) =>
                /\ tier = 3
                /\ msg.box = "error"
                /\ msg.text = "High default risk detected. Recommend rejection or strong compensating factors."
            /\ \A q \in Probabilities :
                   ~Lt(q, p) => TierOfLabel(RiskCard(q).risk_level) >= tier

\* p = 0.20 exactly has been scored and rendered as Moderate
C1_Witness ==
    /\ Rendered
    /\ probability = <<1, 5>>
    /\ display.card.risk_level = "Moderate Risk"
    /\ display.recommendation.box = "warning"

\* the declared domain of a borrower record (the data model's bounds)
InDeclaredDomain(w) ==
    /\ w.Age \in 18 .. 70
    /\ w.Income >= 0
    /\ w.LoanAmount >= 0
    /\ w.CreditScore \in 300 .. 850
    /\ w.MonthsEmployed \in 0 .. 480
    /\ w.NumCreditLines \in 0 .. 15
    /\ ~Lt(w.InterestRate, <<1, 1>>) /\ ~Lt(<<25, 1>>, w.InterestRate)
    /\ w.LoanTerm \in {120, 180, 240, 300, 360}
    /\ ~Lt(w.DTIRatio, <<0, 1>>) /\ ~Lt(<<1, 1>>, w.DTIRatio)
    /\ w.Education \in {"High School", "Bachelor", "Master", "PhD"}
    /\ w.EmploymentType \in {"Salaried", "Self-Employed", "Unemployed"}
    /\ w.MaritalStatus \in {"Single", "Married", "Divorced"}
    /\ w.HasMortgage \in {"Yes", "No"}
    /\ w.HasDependents \in {"Yes", "No"}
    /\ w.LoanPurpose \in {"Home Purchase", "Refinance", "Investment"}
    /\ w.HasCoSigner \in {"Yes", "No"}

\* C2: a run whose input has a field outside its declared domain computes no
\* derived feature, scores no record and renders nothing.
C2_RejectsInvalidInput ==
    ~InDeclaredDomain(widgets) =>
        /\ loan_to_income = None
        /\ employment_ratio = None
        /\ credit_utilization_proxy = None
        /\ input_data = None
        /\ scoreCalls = 0
        /\ display = None

\* C3: within a run, scoring and rendering happen only with the model that a
\* successful load bound; a run whose load failed has ended there, and the
\* load is attempted at most once per run.
C3_NoAssessmentWithoutLoad ==
    /\ (scoreCalls > 0 \/ Rendered) =>
           /\ model # None
           /\ loads >= 1
           /\ exception # "LoadError"
    /\ exception = "LoadError" =>
           /\ pc = "done"
           /\ model = None
           /\ input_data = None
           /\ scoreCalls = 0
           /\ ~Rendered
    /\ loadCalls <= 1

\* the user clicked the button and the load of that run failed
C3_Witness ==
    /\ exception = "LoadError"
    /\ button
    /\ loadCalls = 1

\* C4: a run whose scoring call raised has ended with nothing rendered, and a
\* run makes the scoring call at most once.
C4_ScoringFailurePropagates ==
    /\ exception = "ScoringError" =>
           /\ pc = "done"
           /\ probability = None
           /\ ~Rendered
    /\ scoreCalls <= 1

\* a run whose one scoring call raised
C4_Witness ==
    /\ exception = "ScoringError"
    /\ scoreCalls = 1
    /\ button

\* C5: derivation never raises a division error; once line 104 has run,
\* income <= 0 gives loanToIncome = 0 and income > 0 gives loanAmount/income
\* (80000 and 200000 give 2.5).
C5_LoanToIncome ==
    /\ exception # "ZeroDivisionError"
    /\ pc \in {"button", "score", "render"} => input_data # None
    /\ input_data # None =>
           /\ input_data.LoanToIncome = loan_to_income
           /\ widgets.Income <= 0 => loan_to_income = <<0, 1>>
           /\ widgets.Income > 0 =>
                  IsQuotient(loan_to_income, widgets.LoanAmount, widgets.Income)
           /\ widgets.Income = 80000 /\ widgets.LoanAmount = 200000 =>
                  loan_to_income = <<5, 2>>

\* a negative income with a positive loan amount has been derived
C5_Witness ==
    /\ input_data # None
    /\ widgets.Income < 0
    /\ widgets.LoanAmount = 200000
    /\ input_data.LoanToIncome = <<0, 1>>

\* C6: once line 105 has run, employment_ratio is bound (no division error):
\* it is 0 for age <= 0 and monthsEmployed/age for age > 0.
C6_EmploymentRatio ==
    pc # "derive" =>
        /\ employment_ratio # None
        /\ widgets.Age <= 0 => employment_ratio = <<0, 1>>
        /\ widgets.Age > 0 =>
               IsQuotient(employment_ratio, widgets.MonthsEmployed, widgets.Age)
        /\ input_data # None => input_data.EmploymentRatio = employment_ratio

\* age 0 with a positive employment length has been derived
C6_Witness ==
    /\ pc # "derive"
    /\ widgets.Age = 0
    /\ widgets.MonthsEmployed > 0
    /\ employment_ratio = <<0, 1>>

\* C7: for a record in the declared domain the denominator numCreditLines+1
\* is not zero, derivation completes without an error, and
\* creditUtilizationProxy is loanAmount/(numCreditLines+1).
C7_DerivationTotal ==
    InDeclaredDomain(widgets) =>
        /\ widgets.NumCreditLines + 1 # 0
        /\ exception # "ZeroDivisionError"
        /\ pc \in {"button", "score", "render"} => input_data # None
        /\ input_data # None =>
               /\ loan_to_income # None
               /\ employment_ratio # None
               /\ input_data.CreditUtilizationProxy = credit_utilization_proxy
               /\ IsQuotient(credit_utilization_proxy, widgets.LoanAmount,
                             widgets.NumCreditLines + 1)

\* an in-domain record with no credit lines has been derived
C7_Witness ==
    /\ InDeclaredDomain(widgets)
    /\ widgets.NumCreditLines = 0
    /\ widgets.LoanAmount = 200000
    /\ input_data # None
    /\ credit_utilization_proxy = <<200000, 1>>

\* C8: in a rendered assessment the gauge colour, the card's label and colour
\* and the recommendation box all stand for the same tier.
C8_CascadesAgree ==
    Rendered =>
        LET tier == TierOfLabel(display.card.risk_level)
        IN  /\ TierOfColor(display.card.color) = tier
            /\ TierOfColor(display.gauge.color) = tier
            /\ TierOfBox(display.recommendation.box) = tier

\* p = 0.40 exactly has been rendered, with a red gauge
C8_Witness ==
    /\ Rendered
    /\ probability = <<2, 5>>
    /\ display.gauge.color = "#e74c3c"

\* one successful load at most, and every run binds and scores with the
\* object that load returned
C9_Inv ==
    /\ loads <= 1
    /\ cache # None => cache = [id |-> 1, weights |-> "fitted"]
    /\ model # None => model = cache
    /\ scoredWith # None => scoredWith = cache

\* C9: joblib.load returns at most once in the process; every scoring call is
\* made on that one object; and once cached the object is never replaced or
\* changed.
C9_LoadedOnce == [](C9_Inv) /\ [][cache # None => cache' = cache]_vars

\* a run that did not load scores with the cached object
C9_Witness ==
    /\ loads = 1
    /\ loadCalls = 0
    /\ scoreCalls = 1
    /\ scoredWith = cache

\* C10: a row derived from the default base record is identical to the row
\* first derived from it, whatever was derived in between; a row's base fields
\* are the widget values; and the ratios shown are those of the scored row.
C10_DeriveStateless ==
    /\ input_data # None =>
           /\ Base(input_data) = widgets
           /\ refDerived # None /\ Base(input_data) = Base(refDerived) =>
                  input_data = refDerived
    /\ Rendered =>
           /\ scoredRecord = input_data
           /\ display.ratios = <<scoredRecord.LoanToIncome, scoredRecord.DTIRatio,
                                 scoredRecord.EmploymentRatio>>

\* the default record derived again, in a run the button started, and rendered
C10_Witness ==
    /\ Rendered
    /\ button
    /\ refDerived # None
    /\ input_data = refDerived
    /\ display.ratios = <<<<5, 2>>, <<7, 20>>, <<12, 7>>>>

====
